---- MODULE Spec2Model ----
(***************************************************************************)
(* Model of chess_app.py (Chess Coach V3.0): the evaluator adapter         *)
(* get_engine_analysis, the game analyzer analyze_full_game, and the       *)
(* Streamlit session state machine (Analysis view and Play mode).          *)
(*                                                                         *)
(* Evaluations are kept in centipawns (the code's float is cp / 100.0):    *)
(* 1.5 pawns is 150, the mate sentinel 99.0 is 9900.  Every difference of  *)
(* two modelled evaluations is at least 10 cp away from the threshold, so  *)
(* float rounding cannot change a comparison the model makes.              *)
(*                                                                         *)
(* A game record is its list of moves; moves are opaque, a move is named   *)
(* by its 1-based number.  The position after k moves is named k; with the *)
(* standard starting position White is to move when k is even.             *)
(***************************************************************************)
EXTENDS Integers, Sequences, FiniteSets, TLC

VARIABLES
    STOCKFISH_PATH,     \* TRUE when an engine binary was found (line 16-20)
    pgn_source,         \* the game record supplied in the sidebar (line 121-126)
    move_idx,           \* st.session_state.move_idx
    analysis_data,      \* st.session_state.analysis_data (dict: move number -> sample)
    blunders,           \* st.session_state.blunders (list)
    app_mode,           \* st.session_state.app_mode
    mode_selection,     \* the "App Mode" radio widget
    play_board,         \* st.session_state.play_board
    play_game_history,  \* st.session_state.play_game_history
    user_side,          \* the "I want to play" selectbox
    pc,                 \* script position: "idle" (rendered), "rerun", "thinking"
    exc,                \* uncaught exception of the last script run, or "none"
    engine,             \* the engine's answer for each position of the analysed game
    ret                 \* what analyze_full_game returned in the current script run

vars == << STOCKFISH_PATH, pgn_source, move_idx, analysis_data, blunders,
           app_mode, mode_selection, play_board, play_game_history, user_side,
           pc, exc, engine, ret >>

---------------------------------------------------------------------------
(* Bounds *)

MaxLen == 3         \* longest game record
MaxMate == 1        \* largest mate distance the engine reports
MaxPlies == 4       \* plies after which a played game is over

---------------------------------------------------------------------------
(* Program constants *)

BlunderThreshold == 150     \* 1.5 pawns
MateSentinel == 9900        \* 99.0 pawns

WHITE == "White"
BLACK == "Black"
None == "None"

---------------------------------------------------------------------------
(* The external engine: what engine.analyse reports for a position.        *)
(* The score is relative to the side to move (a PovScore).                 *)

Cp(v) == [is_mate |-> FALSE, v |-> v, given |-> FALSE]
Mate(n) == [is_mate |-> TRUE, v |-> n, given |-> FALSE]
MateGiven == [is_mate |-> TRUE, v |-> 0, given |-> TRUE]

CpScores == {-180, 10, 20, 210}
BestMoves == {"Nf3"}
PvLines == {<< >>} \cup {<< m >> : m \in BestMoves}

\* "mate 0" is reported for a checkmated side to move, with no line of play.
EngineResults ==
    {[fails |-> FALSE, score |-> Cp(v), pv |-> p] : v \in CpScores, p \in PvLines}
    \cup {[fails |-> FALSE, score |-> Mate(n), pv |-> << >>] :
             n \in (-MaxMate..MaxMate) \ {0}}
    \cup {[fails |-> FALSE, score |-> Mate(0), pv |-> << >>]}
    \cup {[fails |-> TRUE, score |-> Cp(0), pv |-> << >>]}

SessionResults ==
    {[fails |-> FALSE, score |-> Cp(v), pv |-> << >>] : v \in {-180, 210}}

\* Only the last position of a game can be a delivered checkmate.
EngineRuns(N, R) ==
    {ev \in [0..N -> R] : \A k \in 0..N : (ev[k].score = Mate(0)) => (k = N /\ N > 0)}

turn(k) == IF k % 2 = 0 THEN WHITE ELSE BLACK

\* Score.__neg__ : -Mate(0) is MateGiven and -MateGiven is Mate(0).
Negate(s) ==
    IF ~s.is_mate THEN Cp(-s.v)
    ELSE IF s.v # 0 THEN Mate(-s.v)
    ELSE IF s.given THEN Mate(0) ELSE MateGiven

\* PovScore.white()
white(side, s) == IF side = WHITE THEN s ELSE Negate(s)

---------------------------------------------------------------------------
(* get_engine_analysis (line 37-52) *)

\* line 47-48: Score.mate() is 0 for Mate(0) and for MateGiven alike
SentinelFor(score) == IF score.v > 0 THEN MateSentinel ELSE -MateSentinel

BestOf(pv) == IF Len(pv) > 0 THEN pv[1] ELSE None

get_engine_analysis(side, raw) ==
    IF ~STOCKFISH_PATH
    THEN [kind |-> "None", eval_val |-> 0, best_move |-> None]
    ELSE IF raw.fails
    THEN [kind |-> "raise", eval_val |-> 0, best_move |-> None]
    ELSE LET score == white(side, raw.score)
         IN  [kind |-> "ok",
              eval_val |-> IF score.is_mate THEN SentinelFor(score) ELSE score.v,
              best_move |-> BestOf(raw.pv)]

---------------------------------------------------------------------------
(* analyze_full_game (line 54-92) *)

\* line 73-78: a first-side ply (i even) is flagged for a drop, a second-side
\* ply (i odd) for a rise.
IsBlunder(i, diff) ==
    IF i % 2 = 0 THEN diff < -BlunderThreshold ELSE diff > BlunderThreshold

\* line 83: the key of the sample of ply i
\* (variant: the 0-based ply index used as the key)
SampleKey_zeroBased(i) == i

SampleKey(i) == i + 1

\* line 80-81: blunders.append(i + 1)
\* (variant: blunders.insert(0, i + 1))
AppendBlunder_prepend(bl, i, flag) == IF flag THEN << i + 1 >> \o bl ELSE bl

AppendBlunder(bl, i, flag) == IF flag THEN Append(bl, i + 1) ELSE bl

\* line 73: None - 0.0 raises TypeError
\* (variant: a missing evaluation counted as 0.0)
DiffRaises_noneAsZero(res) == FALSE

DiffRaises(res) == res.kind = "None"

Raised(what) == [status |-> what, data |-> << >>, blunders |-> << >>]

RECURSIVE AnalyzeLoop(_, _, _, _, _, _)
\* line 65-88: the loop body for ply i and the plies after it
AnalyzeLoop(moves, ev, i, data, bl, prev_eval) ==
    IF i >= Len(moves)
    THEN [status |-> "ok", data |-> data, blunders |-> bl]
    ELSE LET res == get_engine_analysis(turn(i + 1), ev[i + 1])
             curr_eval == res.eval_val
             diff == curr_eval - prev_eval
             is_blunder == IsBlunder(i, diff)
             sample == [eval |-> curr_eval,
                        best_move |-> res.best_move,
                        is_blunder |-> is_blunder]
         IN  IF res.kind = "raise" THEN Raised("EngineError")
             ELSE IF DiffRaises(res) THEN Raised("TypeError")
             ELSE AnalyzeLoop(moves, ev, i + 1,
                              (SampleKey(i) :> sample) @@ data,
                              AppendBlunder(bl, i, is_blunder),
                              curr_eval)

analyze_full_game(moves, ev) == AnalyzeLoop(moves, ev, 0, << >>, << >>, 0)

---------------------------------------------------------------------------
(* Session state (line 22-34) and the values it holds *)

ANALYSIS == "Analysis"
PLAY == "Play vs Stockfish"

NoSource == [loaded |-> FALSE, moves |-> << >>]
Game(n) == [loaded |-> TRUE, moves |-> [k \in 1..n |-> k]]
Games == {Game(n) : n \in 0..MaxLen}

NoBoard == [set |-> FALSE, plies |-> 0]
Board(n) == [set |-> TRUE, plies |-> n]

NoCall == [status |-> "none", data |-> << >>, blunders |-> << >>]

moves == pgn_source.moves

Init ==
    /\ STOCKFISH_PATH \in BOOLEAN
    /\ pgn_source = NoSource
    /\ move_idx = 0
    /\ analysis_data = << >>
    /\ blunders = << >>
    /\ app_mode = ANALYSIS
    /\ mode_selection = ANALYSIS
    /\ play_board = NoBoard
    /\ play_game_history = << >>
    /\ user_side = WHITE
    /\ pc = "idle"
    /\ exc = "none"
    /\ engine = << >>
    /\ ret = NoCall

\* A game record has been supplied; the engine's answers are the input.
InitAnalyzer ==
    /\ STOCKFISH_PATH \in BOOLEAN
    /\ pgn_source \in Games
    /\ move_idx = 0
    /\ analysis_data = << >>
    /\ blunders = << >>
    /\ app_mode = ANALYSIS
    /\ mode_selection = ANALYSIS
    /\ play_board = NoBoard
    /\ play_game_history = << >>
    /\ user_side = WHITE
    /\ pc = "idle"
    /\ exc = "none"
    /\ engine \in EngineRuns(Len(pgn_source.moves), EngineResults)
    /\ ret = NoCall

---------------------------------------------------------------------------
(* What a script run in Analysis mode renders (line 145-255) *)

\* line 154, 159, 166: the viewing phase is entered
Viewing == pgn_source.loaded /\ DOMAIN analysis_data # {}

\* line 175-176, 189-190: moves[k] for k in range(move_idx)
ReplayRaises == move_idx > Len(moves)

\* line 210: the blunders after the current move
next_b == SelectSeq(blunders, LAMBDA b : b > move_idx)

\* line 271
engine_color == IF user_side = BLACK THEN WHITE ELSE BLACK

is_game_over(b) == b.plies >= MaxPlies

---------------------------------------------------------------------------
(* Sidebar (line 107-141) *)

\* line 117-126: a file is uploaded, text is pasted, or the input is cleared
LoadGame(src) ==
    /\ pc = "idle" /\ app_mode = ANALYSIS
    /\ src # pgn_source
    /\ pgn_source' = src
    /\ pc' = "rerun" /\ exc' = "none" /\ ret' = NoCall
    /\ UNCHANGED << STOCKFISH_PATH, move_idx, analysis_data, blunders, app_mode,
                    mode_selection, play_board, play_game_history, user_side, engine >>

\* line 111-113: the radio and its on_change callback
ModeChange ==
    /\ pc = "idle"
    /\ mode_selection' = IF mode_selection = ANALYSIS THEN PLAY ELSE ANALYSIS
    /\ app_mode' = mode_selection'
    /\ pc' = "rerun" /\ exc' = "none" /\ ret' = NoCall
    /\ UNCHANGED << STOCKFISH_PATH, pgn_source, move_idx, analysis_data, blunders,
                    play_board, play_game_history, user_side, engine >>

\* line 131-135
Reset ==
    /\ pc = "idle" /\ app_mode = ANALYSIS
    /\ move_idx' = 0
    /\ analysis_data' = << >>
    /\ blunders' = << >>
    /\ pc' = "rerun" /\ exc' = "none" /\ ret' = NoCall
    /\ UNCHANGED << STOCKFISH_PATH, pgn_source, app_mode, mode_selection,
                    play_board, play_game_history, user_side, engine >>

\* line 141
ChangeSide ==
    /\ pc = "idle" /\ app_mode = PLAY
    /\ user_side' = IF user_side = WHITE THEN BLACK ELSE WHITE
    /\ pc' = "rerun" /\ exc' = "none" /\ ret' = NoCall
    /\ UNCHANGED << STOCKFISH_PATH, pgn_source, move_idx, analysis_data, blunders,
                    app_mode, mode_selection, play_board, play_game_history, engine >>

---------------------------------------------------------------------------
(* Analysis mode (line 145-255) *)

\* line 161-165: "Run Full Analysis"; an exception leaves the session as it was
RunFullAnalysis(ev) ==
    /\ pc = "idle" /\ app_mode = ANALYSIS
    /\ pgn_source.loaded /\ DOMAIN analysis_data = {}
    /\ LET r == analyze_full_game(moves, ev)
       IN  /\ ret' = r
           /\ IF r.status = "ok"
              THEN /\ analysis_data' = r.data
                   /\ blunders' = r.blunders
                   /\ pc' = "rerun" /\ exc' = "none"
              ELSE /\ UNCHANGED << analysis_data, blunders >>
                   /\ pc' = "idle" /\ exc' = r.status
    /\ UNCHANGED << STOCKFISH_PATH, pgn_source, move_idx, app_mode, mode_selection,
                    play_board, play_game_history, user_side, engine >>

AnalyseInput == RunFullAnalysis(engine)

AnalyseGame == \E ev \in EngineRuns(Len(moves), SessionResults) : RunFullAnalysis(ev)

\* line 172-180: "Play this Position vs Stockfish"
PlayThisPosition ==
    /\ pc = "idle" /\ app_mode = ANALYSIS /\ Viewing
    /\ ret' = NoCall
    /\ IF ReplayRaises
       THEN /\ exc' = "IndexError" /\ pc' = "idle"
            /\ UNCHANGED << play_board, play_game_history, app_mode >>
       ELSE /\ play_board' = Board(move_idx)
            /\ play_game_history' = << >>
            /\ app_mode' = PLAY
            /\ pc' = "rerun" /\ exc' = "none"
    /\ UNCHANGED << STOCKFISH_PATH, pgn_source, move_idx, analysis_data, blunders,
                    mode_selection, user_side, engine >>

\* The navigation buttons are rendered after the replay of line 189-190.
NavRendered == pc = "idle" /\ app_mode = ANALYSIS /\ Viewing /\ exc = "none"

\* line 203-205
Prev ==
    /\ NavRendered /\ move_idx > 0
    /\ move_idx' = move_idx - 1
    /\ pc' = "rerun" /\ ret' = NoCall
    /\ UNCHANGED << STOCKFISH_PATH, pgn_source, analysis_data, blunders, app_mode,
                    mode_selection, play_board, play_game_history, user_side, exc, engine >>

\* line 206-208
NextMove ==
    /\ NavRendered /\ move_idx < Len(moves)
    /\ move_idx' = move_idx + 1
    /\ pc' = "rerun" /\ ret' = NoCall
    /\ UNCHANGED << STOCKFISH_PATH, pgn_source, analysis_data, blunders, app_mode,
                    mode_selection, play_board, play_game_history, user_side, exc, engine >>

\* line 209-214
NextBlunder ==
    /\ NavRendered /\ Len(next_b) > 0
    /\ move_idx' = next_b[1]
    /\ pc' = "rerun" /\ ret' = NoCall
    /\ UNCHANGED << STOCKFISH_PATH, pgn_source, analysis_data, blunders, app_mode,
                    mode_selection, play_board, play_game_history, user_side, exc, engine >>

\* line 145-255: a script run in Analysis mode with no button pressed
AnalysisRun ==
    /\ pc = "rerun" /\ app_mode = ANALYSIS
    /\ exc' = IF Viewing /\ ReplayRaises THEN "IndexError" ELSE "none"
    /\ pc' = "idle" /\ ret' = NoCall
    /\ UNCHANGED << STOCKFISH_PATH, pgn_source, move_idx, analysis_data, blunders,
                    app_mode, mode_selection, play_board, play_game_history,
                    user_side, engine >>

---------------------------------------------------------------------------
(* Play mode (line 258-326) *)

\* line 94-104
make_engine_move(b) == IF ~STOCKFISH_PATH THEN b ELSE Board(b.plies + 1)

\* line 260-281: a script run in Play mode up to the spinner or the rendered board
PlayRun ==
    /\ pc = "rerun" /\ app_mode = PLAY
    /\ play_board' = IF play_board.set THEN play_board ELSE Board(0)
    /\ pc' = IF turn(play_board'.plies) = engine_color /\ ~is_game_over(play_board')
             THEN "thinking" ELSE "idle"
    /\ exc' = "none" /\ ret' = NoCall
    /\ UNCHANGED << STOCKFISH_PATH, pgn_source, move_idx, analysis_data, blunders,
                    app_mode, mode_selection, play_game_history, user_side, engine >>

\* line 273-275: make_engine_move under the spinner, then st.rerun()
EngineTurn ==
    /\ pc = "thinking"
    /\ play_board' = make_engine_move(play_board)
    /\ play_game_history' = IF STOCKFISH_PATH
                              THEN Append(play_game_history, "engine")
                              ELSE play_game_history
    /\ pc' = "rerun"
    /\ UNCHANGED << STOCKFISH_PATH, pgn_source, move_idx, analysis_data, blunders,
                    app_mode, mode_selection, user_side, exc, engine, ret >>

\* line 285-299: the move form
UserMove ==
    /\ pc = "idle" /\ app_mode = PLAY
    /\ play_board.set /\ ~is_game_over(play_board)
    /\ play_board' = Board(play_board.plies + 1)
    /\ play_game_history' = Append(play_game_history, "user")
    /\ pc' = "rerun"
    /\ UNCHANGED << STOCKFISH_PATH, pgn_source, move_idx, analysis_data, blunders,
                    app_mode, mode_selection, user_side, exc, engine, ret >>

\* line 324-326
BackToAnalysis ==
    /\ pc = "idle" /\ app_mode = PLAY
    /\ app_mode' = ANALYSIS
    /\ pc' = "rerun"
    /\ UNCHANGED << STOCKFISH_PATH, pgn_source, move_idx, analysis_data, blunders,
                    mode_selection, play_board, play_game_history, user_side,
                    exc, engine, ret >>

---------------------------------------------------------------------------
(* Specifications *)

LoadAnyGame == \E src \in Games \cup {NoSource} : LoadGame(src)

Next ==
    \/ LoadAnyGame
    \/ ModeChange
    \/ Reset
    \/ ChangeSide
    \/ AnalyseGame
    \/ PlayThisPosition
    \/ Prev
    \/ NextMove
    \/ NextBlunder
    \/ AnalysisRun
    \/ PlayRun
    \/ EngineTurn
    \/ UserMove
    \/ BackToAnalysis

Spec == Init /\ [][Next]_vars

\* The script runs and the engine's turn are the program's own steps: a
\* pending rerun is always executed.  User actions carry no fairness.
FairSpec ==
    /\ Spec
    /\ WF_vars(AnalysisRun)
    /\ WF_vars(PlayRun)
    /\ WF_vars(EngineTurn)

NextAnalyzer ==
    \/ AnalyseInput
    \/ AnalysisRun
    \/ Reset

AnalyzerSpec == InitAnalyzer /\ [][NextAnalyzer]_vars

---------------------------------------------------------------------------
(* Properties of the analyzer, under AnalyzerSpec: pgn_source is the game  *)
(* analysed and engine[k] the engine's answer for the position after k     *)
(* moves.  ret is set by the run and cleared by every other step, so a     *)
(* state with ret.status # "none" is the state right after a run.          *)

N == Len(moves)

Ran == ret.status # "none"

\* The evaluator's result for the position after k moves.
Eval(k) == get_engine_analysis(turn(k), engine[k]).eval_val

EvaluatorWorks == STOCKFISH_PATH /\ \A k \in 0..N : ~engine[k].fails

EvaluatorFailsAt(k) == ~STOCKFISH_PATH \/ engine[k].fails

Other(side) == IF side = WHITE THEN BLACK ELSE WHITE

\* The side that mates in the position after k moves: a positive distance is
\* a mate for the side to move, zero or a negative one a mate against it.
MatingSide(k) == IF engine[k].score.v > 0 THEN turn(k) ELSE Other(turn(k))

\* C1: ply i is flagged exactly when diff = eval(after ply i) - eval(before
\* ply i) is below -1.5 for a first-side ply (i even) or above +1.5 for a
\* second-side ply (i odd), the position before ply 0 being the initial one.
C1_BlunderIffSwing ==
    (Ran /\ EvaluatorWorks) =>
        \A i \in 0..(N - 1) :
            ret.data[i + 1].is_blunder
                <=> IF i % 2 = 0 THEN Eval(i + 1) - Eval(i) < -BlunderThreshold
                                 ELSE Eval(i + 1) - Eval(i) > BlunderThreshold

\* C2: the best_move stored for move number i+1 is the engine's suggestion
\* for the position before ply i was applied.
C2_BestMoveIsPreMove ==
    (Ran /\ EvaluatorWorks) =>
        \A i \in 0..(N - 1) : ret.data[i + 1].best_move = BestOf(engine[i].pv)

\* C3: the blunder test of move 1 compares the evaluation after move 1 with
\* the evaluation of the initial position, not with 0.0.
C3_FirstMoveBaseline ==
    (Ran /\ EvaluatorWorks /\ N >= 1) =>
        (ret.data[1].is_blunder <=> (Eval(1) - Eval(0) < -BlunderThreshold))

\* C4: with a working evaluator the run returns exactly the samples 1..N, the
\* sample k holding the evaluation of the position after move k; an empty
\* game returns no sample and no blunder, and raises nothing.
C4_OneSamplePerMove ==
    /\ (Ran /\ EvaluatorWorks) =>
           /\ ret.status = "ok"
           /\ DOMAIN ret.data = 1..N
           /\ \A k \in 1..N : ret.data[k].eval = Eval(k)
    /\ (Ran /\ N = 0) =>
           /\ ret.status = "ok" /\ exc = "none"
           /\ DOMAIN ret.data = {} /\ Len(ret.blunders) = 0

C4_Witness ==
    /\ ret.status = "ok" /\ EvaluatorWorks /\ N >= 2
    /\ DOMAIN analysis_data = 1..N

\* C5: a mate score is returned as +99.0 when White is the mating side and
\* as -99.0 when Black is, the delivered mate (distance 0) included.
C5_SentinelSignIsWinner ==
    (Ran /\ ret.status = "ok" /\ STOCKFISH_PATH) =>
        \A k \in 1..N :
            engine[k].score.is_mate =>
                ret.data[k].eval =
                    IF MatingSide(k) = WHITE THEN MateSentinel ELSE -MateSentinel

---------------------------------------------------------------------------
(* Properties of the session, under Spec and FairSpec *)

BlunderKeys(data) == {k \in DOMAIN data : data[k].is_blunder}

Ascending(bl) == \A a, b \in 1..Len(bl) : a < b => bl[a] < bl[b]

\* C7: the blunder list, as returned and as stored, is strictly ascending
\* and holds exactly the move numbers whose sample has is_blunder set.
C7_BlundersDerived ==
    /\ Ascending(blunders)
    /\ {blunders[a] : a \in 1..Len(blunders)} = BlunderKeys(analysis_data)
    /\ Ascending(ret.blunders)
    /\ {ret.blunders[a] : a \in 1..Len(ret.blunders)} = BlunderKeys(ret.data)

C7_Witness ==
    /\ Len(blunders) >= 2
    /\ \E k \in DOMAIN analysis_data : ~analysis_data[k].is_blunder
    /\ move_idx > 0

\* C8: a non-empty cached analysis_data shown in the Analysis view is the
\* analysis of the game record currently loaded: its keys are 1..len(moves)
\* of that game.
C8_CacheIsOfLoadedGame ==
    (app_mode = ANALYSIS /\ Viewing /\ pc = "idle") =>
        DOMAIN analysis_data = 1..Len(moves)

\* C9: when the viewing phase has replayed the moves, move_idx is within
\* 0..len(moves) of the loaded game.
C9_MoveIdxInRange ==
    (app_mode = ANALYSIS /\ Viewing /\ pc = "idle") =>
        (0 <= move_idx /\ move_idx <= Len(moves))

EngineToMove ==
    /\ app_mode = PLAY /\ play_board.set
    /\ turn(play_board.plies) = engine_color /\ ~is_game_over(play_board)

BoardRendered ==
    /\ app_mode = PLAY /\ pc = "idle" /\ play_board.set
    /\ (turn(play_board.plies) # engine_color \/ is_game_over(play_board))

\* C10: in Play mode, when it is the engine's turn and the game is not over,
\* the board is eventually rendered with the user to move or the game over.
C10_EngineTurnEnds == EngineToMove ~> BoardRendered

====
